---- MODULE Spec2Model ----
(***************************************************************************)
(* A model of the n8n workflow visualizer: graph construction              *)
(* (N8nWorkflowVisualizer.create_workflow_graph), the two render stages    *)
(* (visualize_workflow_matplotlib, create_simple_diagram), their           *)
(* orchestration (visualize_file) and the command-line entry point (main). *)
(*                                                                         *)
(* JSON values.  A JSON object is a record with a field "keys", the set of *)
(* keys the object carries, and one field per key the code reads; the      *)
(* value stored under a key that is not in "keys" is a filler that is      *)
(* never read (dict.get is modelled by Get).  A JSON string is a TLA+      *)
(* string; JNumber stands for a JSON number where the code expects a       *)
(* string; None is Python's None.                                          *)
(***************************************************************************)
EXTENDS Integers, Sequences, FiniteSets, TLC

\* ------------------------------------------------------------------ bounds

\* The longest "nodes" list of a document.
MaxNodes == 2

\* The most connection entries met by the walk of the "connections" map.
MaxConns == 2

\* The longest list of descriptors handed to the fallback renderer alone.
MaxListed == 22

\* The most pieces a type tag is made of.
MaxParts == 2

\* The most calls in a row on one visualizer instance.
MaxCalls == 3

\* ------------------------------------------------------------ JSON values

None == "<None>"

JNumber == "<number>"

\* dict.get(k, default) on a JSON object.
Get(obj, k, default) == IF k \in obj.keys THEN obj[k] ELSE default

\* Python truthiness of a string or None (the empty string and None are falsy).
Truthy(v) == v # None /\ v # ""

IsStr(v) == v # None /\ v # JNumber

\* ------------------------------------------------------- strings as text

\* The characters of the strings whose content the code inspects.
Chars(s) ==
    CASE s = "trigger" -> <<"t","r","i","g","g","e","r">>
      [] s = "if" -> <<"i","f">>
      [] s = "switch" -> <<"s","w","i","t","c","h">>
      [] s = "function" -> <<"f","u","n","c","t","i","o","n">>
      [] s = "code" -> <<"c","o","d","e">>
      [] s = "http" -> <<"h","t","t","p">>
      [] s = "webhook" -> <<"w","e","b","h","o","o","k">>
      [] s = "email" -> <<"e","m","a","i","l">>
      [] s = "slack" -> <<"s","l","a","c","k">>
      [] s = "telegram" -> <<"t","e","l","e","g","r","a","m">>
      [] s = "unknown" -> <<"u","n","k","n","o","w","n">>
      [] s = "n8n-nodes-base.start" ->
           <<"n","8","n","-","n","o","d","e","s","-","b","a","s","e",".",
             "s","t","a","r","t">>
      [] s = "Webhook Trigger" ->
           <<"W","e","b","h","o","o","k"," ","T","r","i","g","g","e","r">>
      [] s = "Slack" -> <<"S","l","a","c","k">>
      [] s = "IF" -> <<"I","F">>
      [] s = "Trigger" -> <<"T","r","i","g","g","e","r">>
      [] s = "TRIGGER" -> <<"T","R","I","G","G","E","R">>
      [] s = "Switch" -> <<"S","w","i","t","c","h">>
      [] s = "Function" -> <<"F","u","n","c","t","i","o","n">>
      [] s = "CODE" -> <<"C","O","D","E">>
      [] s = "HTTP" -> <<"H","T","T","P">>
      [] s = "Webhook" -> <<"W","e","b","h","o","o","k">>
      [] s = "Email" -> <<"E","m","a","i","l">>
      [] s = "Telegram" -> <<"T","e","l","e","g","r","a","m">>
      [] s = "Notification" -> <<"N","o","t","i","f","i","c","a","t","i","o","n">>
      [] s = "n8n-nodes-base." -> <<"n","8","n","-","n","o","d","e","s","-","b","a","s","e",".">>
      [] s = " " -> <<" ">>
      [] s = "start" -> <<"s","t","a","r","t">>
      [] s = "Start" -> <<"S","t","a","r","t">>
      [] s = "Send" -> <<"S","e","n","d">>
      [] s = "Unnamed" -> <<"U","n","n","a","m","e","d">>
      [] s = "Demo" -> <<"D","e","m","o">>
      [] s = "Schedule Trigger" ->
           <<"S","c","h","e","d","u","l","e"," ","T","r","i","g","g","e","r">>
      [] s = "Send Telegram Notification" ->
           <<"S","e","n","d"," ","T","e","l","e","g","r","a","m"," ","N","o","t","i","f","i","c","a","t","i","o","n">>
      [] OTHER -> <<>>

UpperLetters ==
    <<"A","B","C","D","E","F","G","H","I","J","K","L","M",
      "N","O","P","Q","R","S","T","U","V","W","X","Y","Z">>

LowerLetters ==
    <<"a","b","c","d","e","f","g","h","i","j","k","l","m",
      "n","o","p","q","r","s","t","u","v","w","x","y","z">>

\* str.lower() on the letters: each capital with its small letter.
LowerOf ==
    [c \in {UpperLetters[i] : i \in 1..Len(UpperLetters)} |->
        LowerLetters[CHOOSE i \in 1..Len(UpperLetters) : UpperLetters[i] = c]]

\* str.lower() on one character.
LowerChar(c) == IF c \in DOMAIN LowerOf THEN LowerOf[c] ELSE c

Lower(cs) == [i \in 1..Len(cs) |-> LowerChar(cs[i])]

\* needle in hay, on character sequences.
Contains(hay, needle) ==
    \E i \in 0..(Len(hay) - Len(needle)) :
        \A j \in 1..Len(needle) : hay[i + j] = needle[j]

\* ---------------------------------------------------------- _get_node_color

node_colors ==
    [trigger |-> "#ff6b6b", action |-> "#4ecdc4", condition |-> "#ffe66d",
     function |-> "#a8e6cf", default |-> "#95a5a6"]

ActionTerms == <<"http", "webhook", "email", "slack", "telegram">>

\* The chain of tests as it would be without node_type.lower().
CategoryOfChars_CaseSensitive(cs) ==
    LET has(term) == Contains(cs, Chars(term))
    IN  IF has("trigger") THEN "trigger"
        ELSE IF has("if") \/ has("switch") THEN "condition"
        ELSE IF has("function") \/ has("code") THEN "function"
        ELSE IF \E k \in 1..Len(ActionTerms) : has(ActionTerms[k]) THEN "action"
        ELSE "default"

\* The style category the chain of tests selects for the characters of a
\* type tag.
CategoryOfChars(cs) ==
    LET t == Lower(cs)
        has(term) == Contains(t, Chars(term))
    IN  IF has("trigger") THEN "trigger"
        ELSE IF has("if") \/ has("switch") THEN "condition"
        ELSE IF has("function") \/ has("code") THEN "function"
        ELSE IF \E k \in 1..Len(ActionTerms) : has(ActionTerms[k]) THEN "action"
        ELSE "default"

\* The type tags of the node descriptors, and the tag of a descriptor that
\* has none.
KnownTags == {"n8n-nodes-base.start", "Slack", "unknown"}

CategoryOfTag == [t \in KnownTags |-> CategoryOfChars(Chars(t))]

\* The style category of a type tag.  The categories of the tags the
\* documents carry are computed once.
Category(node_type) ==
    IF node_type \in KnownTags THEN CategoryOfTag[node_type]
    ELSE CategoryOfChars(Chars(node_type))

_get_node_color(node_type) == node_colors[Category(node_type)]

\* ------------------------------------------------------------ the graph
(***************************************************************************)
(* A networkx DiGraph: the nodes in insertion order, the attribute dict of *)
(* each node that was added with attributes, and the edges as a set of     *)
(* (source, target) pairs: a DiGraph holds at most one edge per ordered    *)
(* pair.  "status" is "raised" when the construction ended in an           *)
(* exception.  "processed" and "dropped" count the connection descriptors  *)
(* the innermost loop of the walk has visited and those among them for     *)
(* which no edge was added.  A coordinate is kept in hundredths: the value *)
(* position[0]/100 is stored as the integer position[0].                   *)
(***************************************************************************)
EmptyGraph ==
    [status |-> "ok", nodes |-> <<>>, attr |-> <<>>, edges |-> {},
     processed |-> 0, dropped |-> 0]

Raised(G) == [G EXCEPT !.status = "raised"]

SeqRange(s) == {s[i] : i \in 1..Len(s)}

has_node(G, n) == n \in SeqRange(G.nodes)

\* add_node as it would be if a node already in the graph kept its attributes.
add_node_KeepsFirst(G, n, attrs) ==
    IF n = None THEN Raised(G)
    ELSE IF has_node(G, n) THEN G
    ELSE [G EXCEPT !.nodes = Append(@, n), !.attr = (n :> attrs) @@ @]

\* DiGraph.add_node(n, **attrs): None is refused; a node already in the
\* graph keeps its place and takes the new attributes.
add_node(G, n, attrs) ==
    IF n = None THEN Raised(G)
    ELSE IF has_node(G, n) THEN [G EXCEPT !.attr = (n :> attrs) @@ @]
    ELSE [G EXCEPT !.nodes = Append(@, n), !.attr = (n :> attrs) @@ @]

\* DiGraph.add_edge(u, v): endpoints that are not nodes yet are added (with
\* no attributes); the edge is stored once.
add_edge(G, u, v) ==
    LET withU == IF has_node(G, u) THEN G.nodes ELSE Append(G.nodes, u)
        withV == IF v \in SeqRange(withU) THEN withU ELSE Append(withU, v)
    IN  [G EXCEPT !.nodes = withV, !.edges = @ \cup {<<u, v>>}]

\* ------------------------------------------------- create_workflow_graph

\* A "position" value the code can index and divide: at least two numbers.
GoodPosition(p) == Len(p) >= 2

\* The attributes as they would be if the label of a descriptor without a
\* name were its identifier.
NodeAttrs_LabelDefaultsToId(node) ==
    LET node_name == Get(node, "name", Get(node, "id", None))
        node_type == Get(node, "type", "unknown")
        position == Get(node, "position", <<0, 0>>)
    IN  [label |-> node_name, type |-> node_type,
         pos |-> <<position[1], -position[2]>>,
         color |-> _get_node_color(node_type)]

\* The attributes a descriptor's node is added with.
NodeAttrs(node) ==
    LET node_name == Get(node, "name", "Unnamed")
        node_type == Get(node, "type", "unknown")
        position == Get(node, "position", <<0, 0>>)
    IN  [label |-> node_name, type |-> node_type,
         pos |-> <<position[1], -position[2]>>,
         color |-> _get_node_color(node_type)]

\* The loop body as it would be if the node were keyed by its name.
AddNodeFor_KeyedByName(G, node) ==
    LET node_name == Get(node, "name", "Unnamed")
        node_type == Get(node, "type", "unknown")
        position == Get(node, "position", <<0, 0>>)
    IN  IF ~GoodPosition(position) \/ ~IsStr(node_type) THEN Raised(G)
        ELSE add_node(G, node_name, NodeAttrs(node))

\* The body of the loop over the node descriptors, for one descriptor: the
\* reads of position[0], position[1] and node_type.lower() raise on a value
\* they cannot use.
AddNodeFor(G, node) ==
    LET node_id == Get(node, "id", None)
        node_type == Get(node, "type", "unknown")
        position == Get(node, "position", <<0, 0>>)
    IN  IF ~GoodPosition(position) \/ ~IsStr(node_type) THEN Raised(G)
        ELSE add_node(G, node_id, NodeAttrs(node))

RECURSIVE AddNodes(_, _)
AddNodes(G, descriptors) ==
    IF descriptors = <<>> \/ G.status = "raised" THEN G
    ELSE AddNodes(AddNodeFor(G, Head(descriptors)), Tail(descriptors))

\* The condition as it would be without the test of the source.
EdgeAccepted_NoSourceCheck(G, source_node, target_node) ==
    Truthy(target_node) /\ has_node(G, target_node)

\* The condition as it would be without the test of the target.
EdgeAccepted_NoTargetCheck(G, source_node, target_node) ==
    Truthy(target_node) /\ has_node(G, source_node)

\* The condition under which a connection descriptor becomes an edge.
EdgeAccepted(G, source_node, target_node) ==
    Truthy(target_node) /\ has_node(G, source_node) /\ has_node(G, target_node)

\* One entry of the walk of the connection map.
AddEdgeFor(G, entry) ==
    CASE entry.shape = "outputs_not_dict" -> Raised(G)
      [] entry.shape \in {"port_not_list", "group_not_list"} -> G
      [] entry.shape = "conn_not_dict" ->
           [G EXCEPT !.processed = @ + 1, !.dropped = @ + 1]
      [] OTHER ->
           LET target_node == Get(entry, "node", None)
           IN  IF EdgeAccepted(G, entry.source, target_node)
               THEN [add_edge(G, entry.source, target_node)
                        EXCEPT !.processed = @ + 1]
               ELSE [G EXCEPT !.processed = @ + 1, !.dropped = @ + 1]

RECURSIVE AddEdges(_, _)
AddEdges(G, entries) ==
    IF entries = <<>> \/ G.status = "raised" THEN G
    ELSE AddEdges(AddEdgeFor(G, Head(entries)), Tail(entries))

\* Iterating the value of "nodes": a list yields its descriptors, nothing
\* to iterate is an empty loop, anything else makes the loop raise.
NodesIterable(nodes) == nodes.kind \in {"list", "empty_string", "empty_object"}

\* The construction as it would be if it read workflow_data['nodes'].
create_workflow_graph_RequiresNodes(workflow_data) ==
    IF "nodes" \notin workflow_data.keys THEN Raised(EmptyGraph)
    ELSE IF ~NodesIterable(workflow_data.nodes) THEN Raised(EmptyGraph)
    ELSE AddEdges(AddNodes(EmptyGraph, workflow_data.nodes.items),
                  Get(workflow_data, "connections", <<>>))

create_workflow_graph(workflow_data) ==
    LET nodes == Get(workflow_data, "nodes", [kind |-> "list", items |-> <<>>])
        connections == Get(workflow_data, "connections", <<>>)
    IN  IF ~NodesIterable(nodes) THEN Raised(EmptyGraph)
        ELSE AddEdges(AddNodes(EmptyGraph, nodes.items), connections)

\* ------------------------------------------------------------ documents

SeqsUpTo(S, n) == UNION {[1..k -> S] : k \in 0..n}

NodeObj(keys, id, name, type, position) ==
    [keys |-> keys, id |-> id, name |-> name, type |-> type,
     position |-> position]

\* The sets of optional values a descriptor is filled with: the names of the
\* last three have 15, 16 and 26 characters.
Filling ==
    <<[name |-> "Start", type |-> "n8n-nodes-base.start", position |-> <<100, 200>>],
      [name |-> "Send", type |-> "Slack", position |-> <<250, -100>>],
      [name |-> "Webhook Trigger", type |-> "Slack", position |-> <<0, 0>>],
      [name |-> "Schedule Trigger", type |-> "Slack", position |-> <<0, 100>>],
      [name |-> "Send Telegram Notification", type |-> "Slack",
       position |-> <<200, 100>>]>>

OptionalKeySets ==
    {{"name", "type", "position"}, {}, {"type", "position"},
     {"name", "position"}, {"name", "type"}}

\* A descriptor with the optional keys ks, the values of Filling[f] under
\* them, and the identifier id (no "id" key when id is None).
Descriptor(id, ks, f) ==
    NodeObj(ks \cup (IF id = None THEN {} ELSE {"id"}),
            IF id = None THEN "" ELSE id,
            IF "name" \in ks THEN Filling[f].name ELSE "",
            IF "type" \in ks THEN Filling[f].type ELSE "",
            IF "position" \in ks THEN Filling[f].position ELSE <<>>)

\* Descriptors with a present field the code cannot use: a position of one
\* number, a type tag that is a number, a name that is a number.
BadPosition == NodeObj({"id", "position"}, "a", "", "", <<5>>)

NumberType == NodeObj({"id", "type"}, "a", "", JNumber, <<>>)

NumberName == NodeObj({"id", "name"}, "a", JNumber, "", <<>>)

RichDescriptors ==
    {Descriptor(id, ks, 1) : id \in {None, "a", "b"}, ks \in OptionalKeySets}
    \cup {Descriptor(id, {"name", "type", "position"}, 2) : id \in {None, "a", "b"}}
    \cup {BadPosition, NumberType, NumberName}

\* Descriptors that differ in their identifier only.
PlainDescriptors ==
    {Descriptor(id, {"name", "type", "position"}, 1) : id \in {"a", "b", ""}}

NodesValue(kind, items) == [kind |-> kind, items |-> items]

\* What "nodes" holds when it is not a list: null, the number 0 or 0.0, a
\* number other than zero, a string or an object, empty or not.
NonListKinds ==
    {"null", "zero", "number", "empty_string", "string", "empty_object",
     "object"}

(***************************************************************************)
(* The connection map, as the sequence of entries its walk meets, in walk  *)
(* order.  An entry of shape "conn" is a connection descriptor (a dict)    *)
(* of source "source"; the other shapes are the places where the walk      *)
(* finds something else than the expected container: the value of the      *)
(* source is not a dict, the value of a port is not a list, a group is not *)
(* a list, an element of a group is not a dict.                            *)
(***************************************************************************)
ConnEntry(source, shape, keys, node) ==
    [source |-> source, shape |-> shape, keys |-> keys, node |-> node]

ConnDescriptor(source, target) ==
    ConnEntry(source, "conn", IF target = None THEN {} ELSE {"node"},
              IF target = None THEN "" ELSE target)

ConnEntries ==
    {ConnDescriptor("a", t) : t \in {None, "", "a", "b", "x"}}
    \cup {ConnDescriptor("x", "a")}
    \cup {ConnEntry("a", sh, {}, "") :
            sh \in {"port_not_list", "group_not_list", "conn_not_dict"}}
    \cup {ConnEntry("x", "outputs_not_dict", {}, "")}

\* The walk visits the entries of one source in a row (sources are dict keys),
\* and a source whose value is not a dict has no other entry.
WalkOrder(cs) ==
    /\ \A i, j \in 1..Len(cs) :
          (i < j /\ cs[i].source = cs[j].source) =>
              \A k \in i..j : cs[k].source = cs[i].source
    /\ \A i, j \in 1..Len(cs) :
          (i # j /\ cs[i].shape = "outputs_not_dict") =>
              cs[j].source # cs[i].source

ConnWalks == {cs \in SeqsUpTo(ConnEntries, MaxConns) : WalkOrder(cs)}

Document(keys, nodes, connections) ==
    [keys |-> keys, nodes |-> nodes, connections |-> connections,
     name |-> "Demo"]

\* Documents that vary the "nodes" field and the node descriptors.
NodeDocs ==
    {Document({"nodes"} \cup ck, NodesValue("list", ns),
              IF ck = {} THEN <<>> ELSE cs) :
        ns \in SeqsUpTo(RichDescriptors, MaxNodes),
        ck \in {{}, {"connections"}},
        cs \in {<<ConnDescriptor("a", "b")>>}}
    \cup {Document({"nodes", "connections"}, NodesValue(k, <<>>),
                   <<ConnDescriptor("a", "b")>>) : k \in NonListKinds}
    \cup {Document({"connections"}, NodesValue("list", <<>>),
                   <<ConnDescriptor("a", "b")>>),
          Document({}, NodesValue("list", <<>>), <<>>)}

\* Documents that vary the connection map.
EdgeDocs ==
    {Document({"nodes", "connections"}, NodesValue("list", ns), cs) :
        ns \in SeqsUpTo(PlainDescriptors, MaxNodes), cs \in ConnWalks}

\* ------------------------------------------------------------ the state

VARIABLES
    input,      \* the invocation: entry point, input file, document, arguments
    pc,         \* where the invocation stands
    output_path,\* the extension of the path the artifact is written to
    G,          \* the result of the last create_workflow_graph call
    primary,    \* the outcome of visualize_workflow_matplotlib
    fallback,   \* the outcome of create_simple_diagram
    figure,     \* the figure the primary renderer handed to savefig
    image,      \* the image the fallback renderer handed to img.save
    env,        \* the outcomes the environment gave to the steps that ran
    artifact,   \* what this invocation has put at the output path
    writes,     \* the writes to the output path that ran to completion
    result,     \* the value visualize_file returned
    exitcode,   \* the value main returned
    stages,     \* the render stages the invocation went through
    figures,    \* the pyplot figures left open in the process
    calls,      \* the calls of visualize_file that have returned before
    valid,      \* the value validate_workflow returned for the document
    files       \* the files earlier calls left at the other output paths

vars == <<input, pc, output_path, G, primary, fallback, figure, image, env,
          artifact, writes, result, exitcode, stages, figures, calls,
          valid, files>>

NotBuilt == [EmptyGraph EXCEPT !.status = "none"]

NoArtifact == [state |-> "none", by |-> "none"]

\* The output paths of the calls, by their extensions, with no file at any.
NoFiles == [x \in {"png", "svg", "pdf", "txt"} |-> NoArtifact]

NoFigure == [layout |-> "none", pos |-> <<>>]

NoImage == [size |-> <<0, 0>>, cols |-> 0, rects |-> <<>>, footer |-> -1]

\* No step that depends on the environment has run.
NoEnv == [backend |-> "none", save |-> "none", display |-> "none",
          img_save |-> "none"]

\* The defaults of the command line and of create_simple_diagram.
DefaultFormat == "png"

DefaultWidth == 800

DefaultHeight == 600

\* The arguments of an invocation besides the input file: -o/--output (None
\* when not given, else the extension of the path), --format, --width,
\* --height.
Args(output, format, width, height) ==
    [output |-> output, format |-> format, width |-> width, height |-> height]

DefaultArgs == Args(None, DefaultFormat, DefaultWidth, DefaultHeight)

Invocation(entry, file, doc, show, args) ==
    [entry |-> entry, file |-> file, doc |-> doc, show |-> show, args |-> args]

InitRest ==
    /\ G = NotBuilt
    /\ primary = "none"
    /\ fallback = "none"
    /\ figure = NoFigure
    /\ image = NoImage
    /\ env = NoEnv
    /\ artifact = NoArtifact
    /\ writes = 0
    /\ result = "unset"
    /\ exitcode = -1
    /\ stages = <<>>
    /\ figures = 0
    /\ calls = 0
    /\ valid = "unset"
    /\ files = NoFiles

\* ------------------------------------- create_workflow_graph, called alone

GraphInputs ==
    {Invocation("graph", "json", d, FALSE, DefaultArgs) : d \in NodeDocs \cup EdgeDocs}

InitGraph ==
    /\ input \in GraphInputs
    /\ pc = "graph"
    /\ output_path = None
    /\ InitRest

CreateWorkflowGraph ==
    /\ pc = "graph"
    /\ G' = create_workflow_graph(input.doc)
    /\ pc' = "built"
    /\ UNCHANGED <<input, output_path, primary, fallback, figure, image, env,
                   artifact, writes, result, exitcode, stages,
                   figures, calls, valid,
                   files>>

NextGraph == CreateWorkflowGraph

SpecGraph == InitGraph /\ [][NextGraph]_vars

\* ------------------------------------------------------ validate_workflow
(***************************************************************************)
(* N8nWorkflowValidator.validate_workflow: the required fields, the loop   *)
(* over the node descriptors with the set of the identifiers met so far,   *)
(* and the test of "meta".  It looks at the presence of "id", "name" and   *)
(* "type", not at their values, and not at "connections".                  *)
(***************************************************************************)
required_fields == {"nodes"}

node_required_fields == {"id", "name", "type", "position"}

\* The body of the loop, for one descriptor.
NodeValid(node, node_ids) ==
    /\ node_required_fields \subseteq node.keys
    /\ node.id \notin node_ids
    /\ Len(node.position) = 2

RECURSIVE ValidateNodes(_, _)
ValidateNodes(descriptors, node_ids) ==
    IF descriptors = <<>> THEN TRUE
    ELSE IF ~NodeValid(Head(descriptors), node_ids) THEN FALSE
    ELSE ValidateNodes(Tail(descriptors), node_ids \cup {Head(descriptors).id})

validate_workflow(workflow_data) ==
    IF ~(required_fields \subseteq workflow_data.keys) THEN FALSE
    ELSE IF workflow_data.nodes.kind # "list" THEN FALSE
    ELSE IF Len(workflow_data.nodes.items) = 0 THEN FALSE
    ELSE IF ~ValidateNodes(workflow_data.nodes.items, {}) THEN FALSE
    ELSE IF "meta" \in workflow_data.keys /\ workflow_data.meta # "object" THEN FALSE
    ELSE TRUE

\* ------------------------------- validate_workflow, then the construction

AllFields == {"name", "type", "position"}

\* Descriptors with every required key under which the value is not what
\* the construction can use: "id": null, and a type tag that is a number.
NullId ==
    NodeObj(node_required_fields, None, "Start", "n8n-nodes-base.start", <<100, 200>>)

NumberTypeFull == NodeObj(node_required_fields, "b", "Send", JNumber, <<250, -100>>)

ValidatedDescriptors ==
    {Descriptor("a", AllFields, 1), Descriptor("b", AllFields, 2),
     Descriptor("a", {"type", "position"}, 1), Descriptor(None, AllFields, 1),
     NodeObj(node_required_fields, "a", "Start", "Slack", <<5>>),
     NullId, NumberTypeFull}

\* The document with a "meta" field of the given kind.
WithMeta(doc, kind) ==
    [k \in DOMAIN doc \cup {"meta"} |->
        IF k = "meta" THEN kind
        ELSE IF k = "keys" THEN doc.keys \cup {"meta"}
        ELSE doc[k]]

ValidatedDocs ==
    {WithMeta(Document({"nodes", "connections"}, NodesValue("list", ns), cs), m) :
        ns \in SeqsUpTo(ValidatedDescriptors, MaxNodes),
        cs \in {<<>>, <<ConnDescriptor("a", "b")>>,
                <<ConnEntry("a", "outputs_not_dict", {}, "")>>},
        m \in {"object", "string"}}
    \cup {Document({"nodes"}, NodesValue("list", ns), <<>>) :
            ns \in SeqsUpTo(ValidatedDescriptors, MaxNodes)}
    \cup {Document({"nodes"}, NodesValue(k, <<>>), <<>>) : k \in NonListKinds}
    \cup {Document({}, NodesValue("list", <<>>), <<>>)}

InitValidated ==
    /\ input \in {Invocation("validate", "json", d, FALSE, DefaultArgs) :
                    d \in ValidatedDocs}
    /\ pc = "validate"
    /\ output_path = None
    /\ InitRest

ValidateWorkflow ==
    /\ pc = "validate"
    /\ valid' = IF validate_workflow(input.doc) THEN "True" ELSE "False"
    /\ pc' = "graph"
    /\ UNCHANGED <<input, output_path, G, primary, fallback, figure, image,
                   env, artifact, writes, result, exitcode, stages, figures,
                   calls,
                   files>>

NextValidated == ValidateWorkflow \/ CreateWorkflowGraph

SpecValidated == InitValidated /\ [][NextValidated]_vars

\* ------------------------------------------- _get_node_color, called alone
(***************************************************************************)
(* The type tags the function is applied to: a tag is written as a         *)
(* sequence of at most MaxParts pieces, and its text is the pieces put     *)
(* together.  The pieces hold the terms the tests look for in several      *)
(* letter cases, and text that holds none of them.                         *)
(***************************************************************************)
TagParts ==
    {"trigger", "Trigger", "TRIGGER", "if", "IF", "switch", "Switch",
     "function", "Function", "code", "CODE", "http", "HTTP", "webhook",
     "Webhook", "Webhook Trigger", "email", "Email", "slack", "Slack",
     "telegram", "Telegram", "Notification", "n8n-nodes-base.", "start",
     "n8n-nodes-base.start", "unknown", " "}

Tags == SeqsUpTo(TagParts, MaxParts)

RECURSIVE Text(_)
Text(parts) ==
    IF parts = <<>> THEN <<>> ELSE Chars(Head(parts)) \o Text(Tail(parts))

InitColor ==
    /\ input \in {[entry |-> "color", node_type |-> t] : t \in Tags}
    /\ pc = "color"
    /\ output_path = None
    /\ InitRest

GetNodeColor ==
    /\ pc = "color"
    /\ result' = node_colors[CategoryOfChars(Text(input.node_type))]
    /\ pc' = "colored"
    /\ UNCHANGED <<input, output_path, G, primary, fallback, figure, image,
                   env, artifact, writes, exitcode, stages,
                   figures, calls, valid,
                   files>>

NextColor == GetNodeColor

SpecColor == InitColor /\ [][NextColor]_vars

\* ------------------------------------------------------ the output file
(***************************************************************************)
(* What a write to the output path does.  The outcome of a write is the    *)
(* environment's: it completes, it fails before the file is opened, or it  *)
(* fails after the file was opened (a full disk, an I/O error).  The code  *)
(* has no clean-up of its own.  PIL's Image.save removes the file of a     *)
(* failed save when that save created it; matplotlib writes a PNG through  *)
(* Image.save and an SVG or a PDF through a file of its own, which a       *)
(* failed write leaves behind.  Both libraries choose the file format by   *)
(* the extension of the path and refuse an extension they have no writer   *)
(* for before they open the file: PIL has none for ".svg".                 *)
(***************************************************************************)
WriteOutcomes == {"ok", "fail_clean", "fail_partial"}

\* The output file: nothing, the leavings of a failed write, or a whole
\* artifact, and the stage that wrote it.
Complete(stage) == [state |-> "complete", by |-> stage]

Partial(stage) == [state |-> "partial", by |-> stage]

\* The extensions the command line offers, and those PIL can write.
Formats == {"png", "svg", "pdf"}

ImageFormats == {"png", "pdf"}

\* plt.savefig(output_path, ...): whether it raised, and the output file
\* afterwards.
savefig(art, ext, outcome) ==
    CASE ext \notin Formats -> [raised |-> TRUE, artifact |-> art]
      [] outcome = "ok" ->
           [raised |-> FALSE, artifact |-> Complete("primary")]
      [] outcome = "fail_clean" -> [raised |-> TRUE, artifact |-> art]
      [] OTHER ->
           [raised |-> TRUE,
            artifact |-> IF ext = "png" /\ art.state = "none" THEN art
                         ELSE Partial("primary")]

\* img.save as it would be if it had a writer for every extension.
img_save_AlwaysPng(art, ext, outcome) ==
    CASE outcome = "ok" ->
           [raised |-> FALSE, artifact |-> Complete("fallback")]
      [] outcome = "fail_clean" -> [raised |-> TRUE, artifact |-> art]
      [] OTHER ->
           [raised |-> TRUE,
            artifact |-> IF art.state = "none" THEN art ELSE Partial("fallback")]

\* img.save as it would be if it refused to replace a file.
img_save_RefusesToOverwrite(art, ext, outcome) ==
    CASE ext \notin ImageFormats \/ art.state # "none" ->
           [raised |-> TRUE, artifact |-> art]
      [] outcome = "ok" -> [raised |-> FALSE, artifact |-> Complete("fallback")]
      [] OTHER -> [raised |-> TRUE, artifact |-> art]

\* img.save(output_path): whether it raised, and the output file afterwards.
img_save(art, ext, outcome) ==
    CASE ext \notin ImageFormats -> [raised |-> TRUE, artifact |-> art]
      [] outcome = "ok" ->
           [raised |-> FALSE, artifact |-> Complete("fallback")]
      [] outcome = "fail_clean" -> [raised |-> TRUE, artifact |-> art]
      [] OTHER ->
           [raised |-> TRUE,
            artifact |-> IF art.state = "none" THEN art ELSE Partial("fallback")]

\* ------------------------------------------ visualize_workflow_matplotlib
(***************************************************************************)
(* The primary renderer.  e.backend is "error" when matplotlib or          *)
(* networkx raises while the figure is set up and drawn, e.save is the     *)
(* outcome of the write, e.display is "raises" when plt.show() raises.     *)
(* The result holds the graph built, the value returned ("path" for        *)
(* output_path, "None"), the figure handed to savefig, the output file     *)
(* afterwards, whether the write ran to completion, the outcomes of the    *)
(* environment that the steps reached have met, and whether the figure     *)
(* that plt.figure opened is left open: plt.close() is called on the path  *)
(* that returns without display and on no other.                           *)
(***************************************************************************)
\* len() of a label that is no string raises.
LabelsComputable(g) == \A n \in DOMAIN g.attr : g.attr[n].label # JNumber

\* nx.spring_layout: coordinates the force-directed algorithm computes from
\* the edges and a random start; the model keeps no value for them.
SpringLayout(g) == [layout |-> "spring", pos |-> <<>>]

\* The choice of the coordinates as it would be if no 'pos' were ever found.
Layout_AlwaysSpring(g) == SpringLayout(g)

\* The coordinates the nodes are drawn at: the 'pos' attributes when there
\* is any, a spring layout otherwise.
Layout(g) ==
    LET pos == [n \in {m \in SeqRange(g.nodes) : m \in DOMAIN g.attr} |->
                    g.attr[n].pos]
    IN  IF DOMAIN pos = {} THEN SpringLayout(g)
        ELSE [layout |-> "authored", pos |-> pos]

visualize_workflow_matplotlib(workflow_data, art, ext, show, e) ==
    LET g == create_workflow_graph(workflow_data)
        sv == savefig(art, ext, e.save)
        failed == [G |-> g, ret |-> "None", figure |-> NoFigure,
                   artifact |-> art, wrote |-> FALSE, leaked |-> FALSE,
                   met |-> [backend |-> "none", save |-> "none",
                            display |-> "none"]]
        opened == [failed EXCEPT !.leaked = TRUE]
        drawn == [opened EXCEPT !.figure = Layout(g),
                                !.artifact = sv.artifact,
                                !.met.backend = e.backend,
                                !.met.save = e.save]
    IN  IF g.status = "raised" THEN failed
        ELSE IF Len(g.nodes) = 0 THEN failed
        ELSE IF ~LabelsComputable(g) THEN opened
        ELSE IF e.backend = "error" THEN [opened EXCEPT !.met.backend = e.backend]
        ELSE IF sv.raised THEN drawn
        ELSE IF show /\ e.display = "raises"
             THEN [drawn EXCEPT !.wrote = TRUE, !.met.display = e.display]
        ELSE [drawn EXCEPT !.ret = "path", !.wrote = TRUE, !.leaked = show,
                           !.met.display = IF show THEN e.display ELSE "none"]

\* ---------------------------------------------------- create_simple_diagram

\* "not nodes": the empty list, the empty string, the empty object, the
\* number zero and None are falsy.
Falsy(nodes) ==
    \/ nodes.kind \in {"null", "zero", "empty_string", "empty_object"}
    \/ nodes.kind = "list" /\ nodes.items = <<>>

\* The drawing of one descriptor: node_type.lower() and len(node_name) raise
\* on a value that is no string.
Drawable(node) ==
    /\ IsStr(Get(node, "type", "unknown"))
    /\ IsStr(Get(node, "name", "Unnamed"))

\* nodes[:20]
FallbackLimit == 20

\* The slice as it would be without the limit.
FirstNodes_NoLimit(items) == items

FirstNodes(items) ==
    SubSeq(items, 1, IF Len(items) < FallbackLimit THEN Len(items) ELSE FallbackLimit)

\* The geometry of the grid.
node_width == 120

node_height == 40

margin == 20

start_y == 60

Max(a, b) == IF a >= b THEN a ELSE b

Columns(width) == Max(1, (width - 2 * margin) \div (node_width + margin))

\* The text drawn in a rectangle: a name of more than 15 characters is cut
\* to its first 12 and "...".
NameLimit == 15

NameKept == 12

\* The text as it would be if a name were cut to the limit itself.
NodeLabel_CutToLimit(node_name) ==
    IF Len(node_name) > NameLimit
    THEN SubSeq(node_name, 1, NameLimit) \o <<".", ".", ".">>
    ELSE node_name

NodeLabel(node_name) ==
    IF Len(node_name) > NameLimit
    THEN SubSeq(node_name, 1, NameKept) \o <<".", ".", ".">>
    ELSE node_name

\* The rectangle as it would be if the columns were a rectangle's width
\* apart, with no margin between them.
Rectangle_NoMarginBetween(i, node, cols) ==
    LET col == i % cols
        row == i \div cols
    IN  [x |-> margin + col * node_width,
         y |-> start_y + row * (node_height + margin),
         color |-> _get_node_color(Get(node, "type", "unknown")),
         label |-> NodeLabel(Chars(Get(node, "name", "Unnamed")))]

\* The rectangle of the descriptor at index i of nodes[:20] (from 0): its
\* top left corner, its fill colour and the text drawn in it.
Rectangle(i, node, cols) ==
    LET col == i % cols
        row == i \div cols
    IN  [x |-> margin + col * (node_width + margin),
         y |-> start_y + row * (node_height + margin),
         color |-> _get_node_color(Get(node, "type", "unknown")),
         label |-> NodeLabel(Chars(Get(node, "name", "Unnamed")))]

\* The image as it would be if the footer counted the rectangles.
Picture_FooterCountsDrawn(items, width, height) ==
    LET shown == FirstNodes(items)
    IN  [size |-> <<width, height>>,
         cols |-> Columns(width),
         rects |-> [k \in 1..Len(shown) |->
                        Rectangle(k - 1, shown[k], Columns(width))],
         footer |-> Len(shown)]

\* The image after the loop over nodes[:20] and the footer.
Picture(items, width, height) ==
    LET shown == FirstNodes(items)
    IN  [size |-> <<width, height>>,
         cols |-> Columns(width),
         rects |-> [k \in 1..Len(shown) |->
                        Rectangle(k - 1, shown[k], Columns(width))],
         footer |-> Len(items)]

\* The loop over nodes[:20] and the save that follows it, for a "nodes" that
\* is a list.
DrawAndSave(items, art, ext, width, height, outcome) ==
    LET sv == img_save(art, ext, outcome)
    IN  IF \E i \in 1..Len(FirstNodes(items)) : ~Drawable(FirstNodes(items)[i])
        THEN [ret |-> FALSE, artifact |-> art, image |-> NoImage, met |-> "none"]
        ELSE [ret |-> ~sv.raised, artifact |-> sv.artifact,
              image |-> Picture(items, width, height),
              met |-> IF ext \in ImageFormats THEN outcome ELSE "none"]

\* The fallback renderer as it would be without the test of "not nodes".
create_simple_diagram_NoEmptyCheck(workflow_data, art, ext, width, height, outcome) ==
    LET nodes == Get(workflow_data, "nodes", [kind |-> "list", items |-> <<>>])
    IN  IF nodes.kind # "list"
        THEN [ret |-> FALSE, artifact |-> art, image |-> NoImage, met |-> "none"]
        ELSE DrawAndSave(nodes.items, art, ext, width, height, outcome)

\* The fallback renderer as it would be if it returned True without saving.
create_simple_diagram_NoSave(workflow_data, art, ext, width, height, outcome) ==
    LET nodes == Get(workflow_data, "nodes", [kind |-> "list", items |-> <<>>])
    IN  IF Falsy(nodes) \/ nodes.kind # "list"
        THEN [ret |-> FALSE, artifact |-> art, image |-> NoImage, met |-> "none"]
        ELSE [ret |-> TRUE, artifact |-> art, image |-> NoImage, met |-> "none"]

\* The fallback renderer: the value returned, the image handed to img.save,
\* the output file afterwards and the outcome the write has met.  A "nodes"
\* that is neither falsy nor a list raises in nodes[:20] or in the loop over
\* it.
create_simple_diagram(workflow_data, art, ext, width, height, outcome) ==
    LET nodes == Get(workflow_data, "nodes", [kind |-> "list", items |-> <<>>])
        failed == [ret |-> FALSE, artifact |-> art, image |-> NoImage,
                   met |-> "none"]
    IN  IF Falsy(nodes) THEN failed
        ELSE IF nodes.kind # "list" THEN failed
        ELSE DrawAndSave(nodes.items, art, ext, width, height, outcome)

\* ----------------------------------- create_simple_diagram, called alone
(***************************************************************************)
(* The lists the fallback renderer is given: the descriptors of Cycle      *)
(* over and over from one of its places, up to MaxListed of them, and such *)
(* a list with a descriptor whose name is a number put at one place.       *)
(***************************************************************************)
Cycle ==
    <<Descriptor("a", {"name", "type", "position"}, 1),
      Descriptor("b", {"name", "type", "position"}, 2),
      Descriptor("c", {}, 1),
      Descriptor("d", {"name", "type"}, 3),
      Descriptor("e", {"name", "type"}, 4),
      Descriptor("f", {"name"}, 5)>>

Cycled(n, from) == [k \in 1..n |-> Cycle[((k + from) % Len(Cycle)) + 1]]

Listed ==
    {Cycled(n, from) : n \in 0..MaxListed, from \in {0, 1}}
    \cup {[Cycled(n, 0) EXCEPT ![at] = NumberName] :
            n \in (FallbackLimit + 1)..MaxListed,
            at \in {1, FallbackLimit, FallbackLimit + 1}}

Widths == {DefaultWidth, 300, 450, 30}

Heights == {DefaultHeight, 400}

DiagramInputs ==
    {Invocation("diagram", "json", Document({"nodes"}, NodesValue("list", ns), <<>>),
                FALSE, Args(x, DefaultFormat, w, h)) :
        ns \in Listed, x \in {"png", "svg"}, w \in Widths, h \in Heights}

InitDiagram ==
    /\ input \in DiagramInputs
    /\ pc = "diagram"
    /\ output_path = input.args.output
    /\ InitRest

CreateSimpleDiagram ==
    /\ pc = "diagram"
    /\ \E save \in WriteOutcomes :
          LET r == create_simple_diagram(input.doc, artifact, output_path,
                                         input.args.width, input.args.height,
                                         save)
          IN  /\ artifact' = r.artifact
              /\ image' = r.image
              /\ env' = [env EXCEPT !.img_save = r.met]
              /\ writes' = IF r.ret THEN writes + 1 ELSE writes
              /\ fallback' = IF r.ret THEN "ok" ELSE "failed"
    /\ pc' = "drawn"
    /\ UNCHANGED <<input, output_path, G, primary, figure, result, exitcode,
                   stages,
                   figures, calls, valid,
                   files>>

NextDiagram == CreateSimpleDiagram

SpecDiagram == InitDiagram /\ [][NextDiagram]_vars

\* --------------------------------------------------- the render pipeline

PipelineDescriptors ==
    {Descriptor("a", {"name", "type", "position"}, 1),
     Descriptor("b", {"name", "type", "position"}, 2),
     Descriptor("b", {}, 1),
     Descriptor(None, {"name"}, 1),
     NumberName, NumberType}

PipelineDocs ==
    {Document({"nodes"}, NodesValue("list", ns), <<>>) :
        ns \in SeqsUpTo(PipelineDescriptors, MaxNodes)}
    \cup {Document({"nodes"}, NodesValue(k, <<>>), <<>>) : k \in NonListKinds}
    \cup {Document({}, NodesValue("list", <<>>), <<>>)}

\* The document that stands in the invocation when the input is no JSON file.
NoDocument == Document({}, NodesValue("list", <<>>), <<>>)

\* The command lines: each format with no -o, and a -o whose extension is
\* not the format's, with a canvas size that is not the default.
CliArgs ==
    {Args(None, f, DefaultWidth, DefaultHeight) : f \in Formats}
    \cup {Args("png", "svg", 300, 400)}

\* The calls of visualize_file: no output path, or one of some extension.
\* The call has no format and no canvas size.
ApiArgs ==
    {Args(x, DefaultFormat, DefaultWidth, DefaultHeight) :
        x \in {None, "txt", "svg", "pdf"}}

PipelineInputs ==
    {Invocation("cli", "json", d, sh, a) :
        d \in PipelineDocs, sh \in BOOLEAN, a \in CliArgs}
    \cup {Invocation("api", "json", d, sh, a) :
            d \in PipelineDocs, sh \in BOOLEAN, a \in ApiArgs}
    \cup {Invocation(e, f, NoDocument, sh, DefaultArgs) :
            e \in {"cli", "api"}, f \in {"missing", "directory", "invalid_json"},
            sh \in BOOLEAN}

Init ==
    /\ input \in PipelineInputs
    /\ pc = IF input.entry = "cli" THEN "main" ELSE "visualize_file"
    /\ output_path = IF input.entry = "cli" THEN None ELSE input.args.output
    /\ InitRest

\* main, up to its call of visualize_file: --width and --height are parsed
\* and used nowhere.
Main ==
    /\ pc = "main"
    /\ \/ /\ input.file = "missing"
          /\ exitcode' = 1
          /\ output_path' = output_path
          /\ pc' = "exit"
       \/ /\ input.file = "directory"
          /\ exitcode' = 1
          /\ output_path' = output_path
          /\ pc' = "exit"
       \/ /\ input.file \notin {"missing", "directory"}
          /\ exitcode' = exitcode
          /\ output_path' = IF Truthy(input.args.output) THEN input.args.output
                            ELSE input.args.format
          /\ pc' = "visualize_file"
    /\ UNCHANGED <<input, G, primary, fallback, figure, image, env, artifact,
                   writes, result, stages,
                   figures, calls, valid,
                   files>>

\* visualize_file, up to its call of the primary renderer: a file that is
\* missing, cannot be opened or is no JSON ends the call with None; an
\* output path that was not given is the input's with ".png".
VisualizeFile ==
    /\ pc = "visualize_file"
    /\ \/ /\ input.file = "json"
          /\ stages' = <<"Start">>
          /\ output_path' = IF output_path = None THEN "png" ELSE output_path
          /\ result' = result
          /\ pc' = "primary"
       \/ /\ input.file # "json"
          /\ stages' = <<"Start", "Fatal">>
          /\ output_path' = output_path
          /\ result' = "None"
          /\ pc' = "returned"
    /\ UNCHANGED <<input, G, primary, fallback, figure, image, env, artifact,
                   writes, exitcode,
                   figures, calls, valid,
                   files>>

\* The test as it would be if visualize_file returned the primary renderer's
\* result whatever it is.
FallbackNeeded_Never(ret) == FALSE

\* The test that sends visualize_file to the fallback renderer.
FallbackNeeded(ret) == ret = "None"

\* visualize_file's call of the primary renderer and the test of its result.
PrimaryAttempt ==
    /\ pc = "primary"
    /\ \E backend \in {"ok", "error"}, save \in WriteOutcomes,
          display \in {"ok", "raises"} :
          LET r == visualize_workflow_matplotlib(
                       input.doc, artifact, output_path, input.show,
                       [backend |-> backend, save |-> save, display |-> display])
          IN  /\ G' = r.G
              /\ figure' = r.figure
              /\ env' = [env EXCEPT !.backend = r.met.backend,
                                    !.save = r.met.save,
                                    !.display = r.met.display]
              /\ artifact' = r.artifact
              /\ writes' = IF r.wrote THEN writes + 1 ELSE writes
              /\ figures' = IF r.leaked THEN figures + 1 ELSE figures
              /\ IF FallbackNeeded(r.ret)
                 THEN /\ primary' = "failed"
                      /\ stages' = Append(stages, "PrimaryAttempt")
                      /\ result' = result
                      /\ pc' = "fallback"
                 ELSE /\ primary' = "ok"
                      /\ stages' = stages \o <<"PrimaryAttempt", "Done">>
                      /\ result' = r.ret
                      /\ pc' = "returned"
    /\ UNCHANGED <<input, output_path, fallback, image, exitcode, calls,
                   valid,
                   files>>

\* visualize_file's call of the fallback renderer, with no canvas size, and
\* its return.
FallbackAttempt ==
    /\ pc = "fallback"
    /\ \E save \in WriteOutcomes :
          LET r == create_simple_diagram(input.doc, artifact, output_path,
                                         DefaultWidth, DefaultHeight, save)
          IN  /\ artifact' = r.artifact
              /\ image' = r.image
              /\ env' = [env EXCEPT !.img_save = r.met]
              /\ writes' = IF r.ret THEN writes + 1 ELSE writes
              /\ fallback' = IF r.ret THEN "ok" ELSE "failed"
              /\ stages' = stages \o <<"FallbackAttempt", IF r.ret THEN "Done" ELSE "Fatal">>
              /\ result' = IF r.ret THEN "path" ELSE "None"
              /\ pc' = "returned"
    /\ UNCHANGED <<input, output_path, G, primary, figure, exitcode,
                   figures, calls, valid,
                   files>>

\* main, after visualize_file returned.
MainExit ==
    /\ pc = "returned"
    /\ input.entry = "cli"
    /\ exitcode' = IF result = "path" THEN 0 ELSE 1
    /\ pc' = "exit"
    /\ UNCHANGED <<input, output_path, G, primary, fallback, figure, image,
                   env, artifact, writes, result, stages,
                   figures, calls, valid,
                   files>>

Next == Main \/ VisualizeFile \/ PrimaryAttempt \/ FallbackAttempt \/ MainExit

Spec == Init /\ [][Next]_vars

\* ----------------------------- calls in a row on one visualizer instance
(***************************************************************************)
(* A caller that calls visualize_file again and again on the same          *)
(* N8nWorkflowVisualizer, each call with one of two output paths.  The     *)
(* instance holds node_colors only, which no method assigns.  What a call  *)
(* leaves behind                                                           *)
(* is outside the instance: the files at the output paths, and the figures *)
(* of pyplot's registry that were not closed.  Everything else is local to *)
(* the call and starts afresh.  A call finds at its output path the file   *)
(* the last call with that path left there, and none when there was no     *)
(* such call.                                                              *)
(***************************************************************************)
SessionDocs ==
    {Document({"nodes"}, NodesValue("list", ns), <<>>) :
        ns \in {<<>>, <<Descriptor("a", {"name", "type", "position"}, 1)>>,
                <<Descriptor(None, {"name"}, 1)>>, <<NumberName>>}}

SessionInputs ==
    {Invocation("api", "json", d, sh, Args(x, DefaultFormat, DefaultWidth, DefaultHeight)) :
        d \in SessionDocs, sh \in BOOLEAN, x \in {"png", "svg"}}
    \cup {Invocation("api", "invalid_json", NoDocument, FALSE,
                     Args("png", DefaultFormat, DefaultWidth, DefaultHeight))}

InitSession ==
    /\ input \in SessionInputs
    /\ pc = "visualize_file"
    /\ output_path = input.args.output
    /\ InitRest

\* The next call of visualize_file, after the last one returned.
\* The file at an output path: the one the current call works on at its own
\* path, and at another path the one the last call with that path left.
FileAt(path) == IF path = output_path THEN artifact ELSE files[path]

NextCall ==
    /\ pc = "returned"
    /\ calls < MaxCalls - 1
    /\ input' \in SessionInputs
    /\ output_path' = input'.args.output
    /\ pc' = "visualize_file"
    /\ calls' = calls + 1
    /\ G' = NotBuilt
    /\ primary' = "none"
    /\ fallback' = "none"
    /\ figure' = NoFigure
    /\ image' = NoImage
    /\ env' = NoEnv
    /\ writes' = 0
    /\ result' = "unset"
    /\ stages' = <<>>
    /\ files' = [files EXCEPT ![output_path] = artifact]
    /\ artifact' = FileAt(output_path')
    /\ UNCHANGED <<figures, exitcode, valid>>

NextSession == VisualizeFile \/ PrimaryAttempt \/ FallbackAttempt \/ NextCall

SpecSession == InitSession /\ [][NextSession]_vars

\* ============================================================ the claims

\* The document of the invocation, as the claims speak of it.
DocHasNodes == "nodes" \in input.doc.keys

DocNodesKind == IF DocHasNodes THEN input.doc.nodes.kind ELSE "absent"

DocDescriptors == IF DocHasNodes THEN input.doc.nodes.items ELSE <<>>

DocConns ==
    IF "connections" \in input.doc.keys THEN input.doc.connections ELSE <<>>

HasId(d) == "id" \in d.keys

\* Every present field of the descriptor has a value of the expected type.
Usable(d) ==
    /\ "position" \in d.keys => Len(d.position) >= 2
    /\ "type" \in d.keys => d.type # JNumber

DocIds == {DocDescriptors[i].id : i \in {j \in 1..Len(DocDescriptors) : HasId(DocDescriptors[j])}}

AllUsableWithIds ==
    \A i \in 1..Len(DocDescriptors) :
        HasId(DocDescriptors[i]) /\ Usable(DocDescriptors[i])

DistinctIds ==
    \A i, j \in 1..Len(DocDescriptors) :
        i # j => DocDescriptors[i].id # DocDescriptors[j].id

\* The walk of the connection map meets no container of the wrong type at
\* the level of a source.
ConnMapWalkable == \A i \in 1..Len(DocConns) : DocConns[i].shape # "outputs_not_dict"

IsConnDescriptor(c) == c.shape = "conn" /\ "node" \in c.keys

\* A connection descriptor one of whose ends is not a node identifier.
Dangling(c) ==
    IsConnDescriptor(c) /\ (c.source \notin DocIds \/ c.node \notin DocIds)

\* ---------------------------------------------------------- the pipeline

\* visualize_file has returned.
Returned == result # "unset"

Last(seq) == seq[Len(seq)]

IsPrefix(p, q) == Len(p) <= Len(q) /\ \A i \in 1..Len(p) : p[i] = q[i]

\* The stage sequences of the state machine; a call that ends before any
\* render stage (no readable JSON document) goes from Start to Fatal.
StagePaths ==
    {<<"Start", "PrimaryAttempt", "Done">>,
     <<"Start", "PrimaryAttempt", "FallbackAttempt", "Done">>,
     <<"Start", "PrimaryAttempt", "FallbackAttempt", "Fatal">>,
     <<"Start", "Fatal">>}

\* C1 as stated: the stages follow Start -> PrimaryAttempt -> {Done |
\* FallbackAttempt}, FallbackAttempt -> {Done | Fatal}; the fallback renderer
\* runs only after the primary renderer has failed, and once at most; a call
\* ends in Done with the artifact written and the path returned, or in Fatal
\* with no artifact and None returned.
C1_Original ==
    /\ \E p \in StagePaths : IsPrefix(stages, p)
    /\ (pc = "fallback" \/ fallback # "none") => primary = "failed"
    /\ Returned =>
          \/ Last(stages) = "Done" /\ result = "path" /\ artifact.state = "complete"
          \/ Last(stages) = "Fatal" /\ result = "None" /\ artifact.state = "none"

\* The part of C1 that does not speak of the output file: the order of the
\* stages, and the value returned at each end.
StageOrder ==
    /\ \E p \in StagePaths : IsPrefix(stages, p)
    /\ (pc = "fallback" \/ fallback # "none") => primary = "failed"
    /\ Returned =>
          \/ Last(stages) = "Done" /\ result = "path"
          \/ Last(stages) = "Fatal" /\ result = "None"

\* The primary renderer built a graph of at least one node and then failed.
C2_Case == primary = "failed" /\ G.status = "ok" /\ Len(G.nodes) >= 1

\* C2 as stated: when the primary renderer fails on a graph with a node, the
\* call ends in success with the fallback renderer's artifact.
C2_Original ==
    (C2_Case /\ Returned) =>
        (result = "path" /\ artifact = Complete("fallback"))

\* C2, amended: when the primary renderer fails on a graph with a node, the
\* fallback renderer is attempted and its outcome is the call's: its artifact
\* and the path when it succeeds, None when it fails as well.
C2_FallbackDecides ==
    C2_Case =>
        /\ pc = "fallback" \/ fallback # "none"
        /\ Returned =>
              \/ /\ fallback = "ok"
                 /\ result = "path"
                 /\ artifact = Complete("fallback")
              \/ /\ fallback = "failed"
                 /\ result = "None"

C2_Witness ==
    /\ C2_Case
    /\ Returned
    /\ fallback = "ok"
    /\ result = "path"
    /\ artifact = Complete("fallback")

\* The document holds no node descriptor: its "nodes" is absent or empty.
NoDescriptors ==
    /\ input.file = "json"
    /\ DocNodesKind \in {"absent", "list"}
    /\ DocDescriptors = <<>>

\* The document holds node descriptors, none of which has an identifier.
NoIdentifiers ==
    /\ input.file = "json"
    /\ DocNodesKind = "list"
    /\ DocDescriptors # <<>>
    /\ \A i \in 1..Len(DocDescriptors) : ~HasId(DocDescriptors[i])

\* C3 as stated: a document with no usable node (no descriptor, or none with
\* an identifier) fails, main returns non-zero and no artifact is written.
C3_Original ==
    (NoDescriptors \/ NoIdentifiers) =>
        /\ Returned => (result = "None" /\ artifact.state = "none")
        /\ pc = "exit" => exitcode # 0

\* C3, amended: a document with no node descriptor fails in both stages, main
\* returns 1 and nothing is written; descriptors without identifiers fail the
\* primary renderer only, and the call succeeds when the fallback does.
C3_NoDescriptorsFail ==
    /\ NoDescriptors =>
          /\ Returned =>
                /\ result = "None"
                /\ primary = "failed"
                /\ fallback = "failed"
                /\ artifact = NoArtifact
                /\ writes = 0
          /\ pc = "exit" => exitcode = 1
    /\ NoIdentifiers =>
          /\ Returned =>
                /\ primary = "failed"
                /\ result = "path" <=> fallback = "ok"
          /\ pc = "exit" => (exitcode = 0 <=> fallback = "ok")

C3_Witness ==
    /\ NoDescriptors
    /\ DocHasNodes
    /\ pc = "exit"
    /\ exitcode = 1
    /\ fallback = "failed"

\* C4 as stated: a call that ends in Done leaves one whole artifact at the
\* output path, a call that ends in Fatal leaves nothing there, whole or
\* partial, also when a stage failed after it started writing.
C4_Original ==
    Returned =>
        /\ result = "path" => artifact.state = "complete"
        /\ result = "None" => artifact.state = "none"

\* ------------------------------------------------------ graph construction

\* C5's documents: N >= 1 descriptors with distinct identifiers, and
\* well-formed connection descriptors whose ends are all present.
C5_Case ==
    /\ pc = "built"
    /\ DocNodesKind = "list"
    /\ Len(DocDescriptors) >= 1
    /\ AllUsableWithIds
    /\ DistinctIds
    /\ \A i \in 1..Len(DocConns) :
          IsConnDescriptor(DocConns[i]) /\ ~Dangling(DocConns[i])

\* C5 as stated: N descriptors with distinct identifiers and E connection
\* descriptors with both ends present give N nodes and E edges.
C5_Original ==
    C5_Case =>
        /\ G.status = "ok"
        /\ Len(G.nodes) = Len(DocDescriptors)
        /\ Cardinality(G.edges) = Len(DocConns)

\* C5, amended: such a document gives exactly N nodes and one edge for each
\* distinct (source, target) pair named by a descriptor whose target is not
\* the empty string; descriptors that repeat a pair add nothing.
C5_NodesAndDistinctEdges ==
    C5_Case =>
        /\ G.status = "ok"
        /\ Len(G.nodes) = Len(DocDescriptors)
        /\ SeqRange(G.nodes) = DocIds
        /\ G.edges = {<<DocConns[i].source, DocConns[i].node>> :
                        i \in {j \in 1..Len(DocConns) : DocConns[j].node # ""}}

C5_Witness ==
    /\ C5_Case
    /\ Len(DocDescriptors) = 2
    /\ Len(DocConns) = 2
    /\ DocConns[1] = DocConns[2]
    /\ Cardinality(G.edges) = 1

\* C6: every edge of the returned graph joins two of its nodes, the nodes are
\* those of the node descriptors and no others, a connection descriptor with
\* an end that is no node is not an edge and is counted as dropped, and the
\* walk of the descriptors raises nothing.
C6_EdgesJoinNodes ==
    pc = "built" =>
        /\ G.status = "ok" =>
              /\ \A e \in G.edges : has_node(G, e[1]) /\ has_node(G, e[2])
              /\ SeqRange(G.nodes) = DocIds
              /\ \A i \in 1..Len(DocConns) :
                    Dangling(DocConns[i]) =>
                        <<DocConns[i].source, DocConns[i].node>> \notin G.edges
              /\ G.dropped >=
                    Cardinality({i \in 1..Len(DocConns) : Dangling(DocConns[i])})
        /\ (DocNodesKind = "list" /\ AllUsableWithIds /\ ConnMapWalkable) =>
              G.status = "ok"

C6_Witness ==
    /\ pc = "built"
    /\ G.status = "ok"
    /\ G.edges # {}
    /\ \E i \in 1..Len(DocConns) : Dangling(DocConns[i])

\* The entries of the walk that are connection descriptors: the elements of
\* the groups.
Processed ==
    Cardinality({i \in 1..Len(DocConns) :
                    DocConns[i].shape \in {"conn", "conn_not_dict"}})

\* The descriptors that name a pair of nodes, and those among them that name
\* a pair an earlier one named.
Retainable(c) ==
    IsConnDescriptor(c) /\ c.node # "" /\ c.source \in DocIds /\ c.node \in DocIds

Repeats ==
    Cardinality({i \in 1..Len(DocConns) :
                    /\ Retainable(DocConns[i])
                    /\ \E j \in 1..(i - 1) :
                          /\ Retainable(DocConns[j])
                          /\ DocConns[j].source = DocConns[i].source
                          /\ DocConns[j].node = DocConns[i].node})

\* C7 as stated: dropped descriptors plus retained edges make the total of
\* the descriptors processed.
C7_Original ==
    (pc = "built" /\ G.status = "ok") =>
        G.dropped + Cardinality(G.edges) = Processed

\* C7, amended: dropped descriptors plus retained edges make the total of the
\* descriptors processed less the descriptors that repeat a retained pair;
\* the sum is the total exactly when no pair is repeated.
C7_DroppedPlusRetained ==
    (pc = "built" /\ G.status = "ok") =>
        /\ G.processed = Processed
        /\ G.dropped + Cardinality(G.edges) + Repeats = Processed

C7_Witness ==
    /\ pc = "built"
    /\ G.status = "ok"
    /\ G.dropped = 1
    /\ Cardinality(G.edges) = 1
    /\ Processed = 2

\* The last descriptor of the document that carries the identifier n.
LastWithId(n) ==
    LET at == {i \in 1..Len(DocDescriptors) :
                  HasId(DocDescriptors[i]) /\ DocDescriptors[i].id = n}
    IN  DocDescriptors[CHOOSE i \in at : \A j \in at : j <= i]

\* C8: descriptors that share an identifier give one node, whose label, type
\* tag, position and colour are those of the last of them, and sharing an
\* identifier raises nothing.
C8_LastDescriptorWins ==
    pc = "built" =>
        /\ G.status = "ok" =>
              /\ \A i, j \in 1..Len(G.nodes) : G.nodes[i] = G.nodes[j] => i = j
              /\ \A n \in DocIds :
                    has_node(G, n) /\ G.attr[n] = NodeAttrs(LastWithId(n))
        /\ (DocNodesKind = "list" /\ AllUsableWithIds /\ ConnMapWalkable) =>
              G.status = "ok"

C8_Witness ==
    /\ pc = "built"
    /\ G.status = "ok"
    /\ Len(DocDescriptors) = 2
    /\ DocDescriptors[1].id = DocDescriptors[2].id
    /\ NodeAttrs(DocDescriptors[1]) # NodeAttrs(DocDescriptors[2])
    /\ Len(G.nodes) = 1
    /\ G.attr[G.nodes[1]].label = "Send"

\* C9 as stated: a descriptor with no identifier is skipped; the construction
\* does not raise and the nodes are those of the descriptors that have one.
C9_Original ==
    (/\ pc = "built"
     /\ DocNodesKind = "list"
     /\ ConnMapWalkable
     /\ \A i \in 1..Len(DocDescriptors) : Usable(DocDescriptors[i])
     /\ \E i \in 1..Len(DocDescriptors) : ~HasId(DocDescriptors[i]))
        => (G.status = "ok" /\ SeqRange(G.nodes) = DocIds)

\* The construction raises on a value of "nodes" it cannot iterate as
\* descriptors.
RaisingKinds == {"null", "zero", "number", "string", "object"}

\* C10 as stated: the construction raises when "nodes" is absent or not a
\* list, and raises for no absent optional field when it is a list.
C10_Original ==
    pc = "built" =>
        /\ DocNodesKind # "list" => G.status = "raised"
        /\ (DocNodesKind = "list" /\ AllUsableWithIds /\ ConnMapWalkable) =>
              G.status = "ok"

\* C10, amended: an absent "nodes" is no error and gives the empty graph that
\* an empty list gives; so do an empty string and an empty object; null, a
\* number, a non-empty string and a non-empty object raise; a list raises for
\* no absent optional field.
C10_RaisesOnlyOnUniterableNodes ==
    pc = "built" =>
        /\ DocNodesKind \in {"absent", "empty_string", "empty_object"} =>
              (G.status = "ok" /\ G.nodes = <<>> /\ G.edges = {})
        /\ DocNodesKind \in RaisingKinds => G.status = "raised"
        /\ (DocNodesKind = "list" /\ AllUsableWithIds /\ ConnMapWalkable) =>
              (G.status = "ok" /\ SeqRange(G.nodes) = DocIds)

C10_Witness ==
    /\ pc = "built"
    /\ ~DocHasNodes
    /\ "connections" \in input.doc.keys
    /\ G.status = "ok"
    /\ G.nodes = <<>>

\* ------------------------------------------------------------ node styles

\* The ordered list of the claim: the terms of each category, in the order
\* the categories are tried.
CategoryOrder ==
    <<[category |-> "trigger", terms |-> {"trigger"}],
      [category |-> "condition", terms |-> {"if", "switch"}],
      [category |-> "function", terms |-> {"function", "code"}],
      [category |-> "action",
       terms |-> {"http", "webhook", "email", "slack", "telegram"}]>>

\* The categories of which a term occurs in the text, letter case aside.
Matching(cs) ==
    {k \in 1..Len(CategoryOrder) :
        \E term \in CategoryOrder[k].terms : Contains(Lower(cs), Chars(term))}

FirstMatch(cs) ==
    IF Matching(cs) = {} THEN "default"
    ELSE CategoryOrder[CHOOSE k \in Matching(cs) : \A j \in Matching(cs) : k <= j].category

\* C11: the colour returned for a type tag, in any letter case, is that of
\* the first category of the ordered list (trigger; if, switch; function,
\* code; http, webhook, email, slack, telegram) one of whose terms occurs in
\* the tag, and the default colour when none does: "Webhook Trigger" is a
\* trigger, "Slack" an action, "IF" a condition, "n8n-nodes-base.start"
\* default.
C11_FirstMatchDecides ==
    pc = "colored" =>
        /\ result = node_colors[FirstMatch(Text(input.node_type))]
        /\ input.node_type = <<"Webhook Trigger">> => result = node_colors.trigger
        /\ input.node_type = <<"Slack">> => result = node_colors.action
        /\ input.node_type = <<"IF">> => result = node_colors.condition
        /\ input.node_type = <<"n8n-nodes-base.start">> => result = node_colors.default

C11_Witness ==
    /\ pc = "colored"
    /\ input.node_type = <<"HTTP", "Trigger">>
    /\ Cardinality(Matching(Text(input.node_type))) = 2
    /\ result = node_colors.trigger

\* ------------------------------------------------------------ the layout

\* The primary renderer has drawn its figure and handed it to savefig.
FigureDrawn == figure # NoFigure

HasPosition(d) == "position" \in d.keys

\* The affine transform of an authored position [x, y], in hundredths:
\* (x/100, -y/100).
Affine(position) == <<position[1], -position[2]>>

\* C12: when every node descriptor carries an authored position [x, y], the
\* primary renderer draws each node at exactly (x/100, -y/100), and uses no
\* force-directed coordinate.
C12_AuthoredPositionsDrawn ==
    (/\ FigureDrawn
     /\ \A i \in 1..Len(DocDescriptors) : HasPosition(DocDescriptors[i]))
        => /\ figure.layout = "authored"
           /\ DOMAIN figure.pos = DocIds
           /\ \A n \in DocIds : figure.pos[n] = Affine(LastWithId(n).position)

C12_Witness ==
    /\ primary = "ok"
    /\ Len(DocDescriptors) = 2
    /\ \A i \in 1..2 : HasPosition(DocDescriptors[i])
    /\ DocIds = {"a", "b"}
    /\ figure.layout = "authored"
    /\ figure.pos["a"] = <<100, -200>>
    /\ figure.pos["b"] = <<250, 100>>

\* C13 as stated: when a node descriptor lacks an authored position, every
\* node is drawn at a force-directed coordinate: none at the transform of its
\* authored position, none at a stand-in such as (0, 0).
C13_Original ==
    (/\ FigureDrawn
     /\ \E i \in 1..Len(DocDescriptors) : ~HasPosition(DocDescriptors[i]))
        => figure.layout = "spring"

\* ------------------------------------------------------ the fallback image

\* The fallback renderer has drawn its image and handed it to img.save.
ImageDrawn == image # NoImage

Min(a, b) == IF a <= b THEN a ELSE b

\* The name and the colour the fallback renderer reads from a descriptor.
ShownName(d) == IF "name" \in d.keys THEN d.name ELSE "Unnamed"

\* The text drawn for that name: the name, or its first 12 characters and
\* "..." when it has more than 15.
ShownLabel(d) ==
    LET name == Chars(ShownName(d))
    IN  IF Len(name) > 15 THEN SubSeq(name, 1, 12) \o <<".", ".", ".">>
        ELSE name

ShownColor(d) ==
    node_colors[FirstMatch(Chars(IF "type" \in d.keys THEN d.type ELSE "unknown"))]

\* C14: for a document of N descriptors the fallback renderer draws at most
\* min(N, 20) rectangles, and they are those of the first min(N, 20)
\* descriptors, in document order.
C14_FirstTwentyDrawn ==
    pc = "drawn" =>
        /\ Len(image.rects) <= Min(Len(DocDescriptors), 20)
        /\ ImageDrawn =>
              /\ Len(image.rects) = Min(Len(DocDescriptors), 20)
              /\ \A k \in 1..Len(image.rects) :
                    /\ image.rects[k].label = ShownLabel(DocDescriptors[k])
                    /\ image.rects[k].color = ShownColor(DocDescriptors[k])

C14_Witness ==
    /\ pc = "drawn"
    /\ Len(DocDescriptors) = 22
    /\ DocDescriptors[21] = NumberName
    /\ fallback = "ok"
    /\ Len(image.rects) = 20
    /\ image.rects[20].label = ShownLabel(DocDescriptors[20])

\* ------------------------------------------------------------ exit status

\* A write to the output path ran to completion during the invocation.
ArtifactWritten == writes >= 1

\* C15 as stated: main returns 0 exactly when an artifact was successfully
\* written during the invocation, and non-zero when the input path does not
\* exist or is no file, the document fails to parse, the graph has zero
\* nodes, or both render stages fail.
C15_Original ==
    pc = "exit" =>
        /\ exitcode = 0 <=> ArtifactWritten
        /\ input.file # "json" => exitcode # 0
        /\ (G.status = "ok" /\ Len(G.nodes) = 0) => exitcode # 0
        /\ (primary = "failed" /\ fallback = "failed") => exitcode # 0

\* C15 holds of every invocation in which plt.show() does not raise.
C15_UnlessDisplayRaises == env.display # "raises" => C15_Original

\* ------------------------------------------------------------ canvas size

\* C16 as stated: the --width and --height given on the command line are the
\* size of the canvas the fallback renderer packs its grid on, whenever it
\* runs, and have no effect on the primary renderer.
C16_Original ==
    (input.entry = "cli" /\ ImageDrawn) =>
        /\ image.size = <<input.args.width, input.args.height>>
        /\ image.cols = Max(1, (input.args.width - 40) \div 140)

\* ---------------------------------------------------------- output format

\* Every descriptor of the document can be drawn by the fallback renderer.
AllDrawable ==
    \A i \in 1..Len(DocDescriptors) :
        /\ "name" \in DocDescriptors[i].keys => DocDescriptors[i].name # JNumber
        /\ "type" \in DocDescriptors[i].keys => DocDescriptors[i].type # JNumber

\* C17 as stated: whatever the requested format and the extension of the
\* output path, when the primary renderer has failed on a graph with a node
\* the fallback renderer succeeds and its artifact is a raster image: the
\* format never makes it fail (a write that fails for want of space or
\* permission aside).
C17_Original ==
    (/\ C2_Case
     /\ fallback # "none"
     /\ AllDrawable
     /\ env.img_save \notin {"fail_clean", "fail_partial"})
        => /\ fallback = "ok"
           /\ artifact = Complete("fallback")

\* ----------------------------------------------------- interactive display

\* plt.show() raised after savefig had written the whole artifact.
DisplayFailed == env.display = "raises"

\* C18 as stated: the primary renderer writes the artifact before it
\* displays it, and a display that fails after the write does not make the
\* call fail, does not start the fallback renderer and does not overwrite the
\* artifact: the outcome is that of a call with the display suppressed.
C18_Original ==
    DisplayFailed =>
        /\ env.save = "ok"
        /\ primary = "ok"
        /\ pc # "fallback"
        /\ fallback = "none"
        /\ artifact = Complete("primary")
        /\ Returned => result = "path"

\* The first half of C18: plt.show() is called after savefig has written
\* the whole artifact, and never before.
DisplayAfterWrite ==
    (DisplayFailed /\ pc = "fallback") =>
        (env.save = "ok" /\ artifact = Complete("primary") /\ writes = 1)

\* ------------------------------------------------------------ node records

\* C19 as stated: a node whose descriptor has an identifier and no name is
\* labelled with the identifier, one with a name with that name, and a
\* missing type tag is "unknown".
C19_Original ==
    G.status = "ok" =>
        \A n \in DocIds :
            LET d == LastWithId(n)
            IN  /\ G.attr[n].label = IF "name" \in d.keys THEN d.name ELSE d.id
                /\ G.attr[n].type = IF "type" \in d.keys THEN d.type ELSE "unknown"

\* C19, amended: a node whose descriptor has no name is labelled "Unnamed",
\* in the graph and in the rectangle of the fallback renderer, whatever its
\* identifier; one with a name is labelled with that name; a missing type
\* tag is "unknown", which gives the default colour.
C19_UnnamedByDefault ==
    /\ G.status = "ok" =>
          \A n \in DocIds :
              LET d == LastWithId(n)
              IN  /\ G.attr[n].label = ShownName(d)
                  /\ G.attr[n].type = IF "type" \in d.keys THEN d.type ELSE "unknown"
                  /\ "type" \notin d.keys => G.attr[n].color = node_colors.default
    /\ ImageDrawn =>
          \A k \in 1..Len(image.rects) :
              /\ image.rects[k].label = ShownLabel(DocDescriptors[k])
              /\ "type" \notin DocDescriptors[k].keys =>
                    image.rects[k].color = node_colors.default

C19_Witness ==
    /\ G.status = "ok"
    /\ DocDescriptors = <<Descriptor("b", {}, 1)>>
    /\ G.attr["b"].label = "Unnamed"
    /\ G.attr["b"].type = "unknown"
    /\ fallback = "ok"
    /\ image.rects[1].label = <<"U", "n", "n", "a", "m", "e", "d">>

\* ------------------------------------------------------ structural errors

\* The "nodes" of the document is absent, is no list, or is an empty list.
NoNodeList ==
    /\ input.file = "json"
    /\ \/ DocNodesKind # "list"
       \/ DocDescriptors = <<>>

\* C20 as stated: when the input does not exist or is no valid JSON, when
\* "nodes" is missing or no list, or when the graph has no node, the call
\* returns failure at once and enters neither render stage.
C20_Original ==
    ((input.file # "json" \/ NoNodeList) /\ Returned) =>
        /\ result = "None"
        /\ stages = <<"Start", "Fatal">>
        /\ primary = "none"
        /\ fallback = "none"

\* C20, amended: an input that does not exist or is no valid JSON ends the
\* call at once, before any render stage.  A document whose "nodes" is
\* missing, no list or empty is handed to the primary renderer and then to
\* the fallback renderer: each fails before it draws or writes anything, and
\* the call returns failure with no artifact.
C20_StagesFindStructuralErrors ==
    Returned =>
        /\ input.file # "json" =>
              /\ result = "None"
              /\ stages = <<"Start", "Fatal">>
              /\ primary = "none"
              /\ fallback = "none"
              /\ G = NotBuilt
        /\ NoNodeList =>
              /\ result = "None"
              /\ stages = <<"Start", "PrimaryAttempt", "FallbackAttempt", "Fatal">>
              /\ primary = "failed"
              /\ fallback = "failed"
              /\ figure = NoFigure
              /\ image = NoImage
              /\ env = NoEnv
              /\ artifact = NoArtifact
              /\ writes = 0

C20_Witness ==
    /\ Returned
    /\ DocNodesKind = "absent"
    /\ input.file = "json"
    /\ G.status = "ok"
    /\ G.nodes = <<>>
    /\ stages = <<"Start", "PrimaryAttempt", "FallbackAttempt", "Fatal">>

\* ------------------------------------------------------------ the footer

\* C21: the footer of the fallback image reports the number N of node
\* descriptors of the document, also when N > 20 and 20 rectangles are
\* drawn: it is never the number of rectangles in place of N.
C21_FooterCountsDescriptors ==
    (pc = "drawn" /\ ImageDrawn) =>
        /\ image.footer = Len(DocDescriptors)
        /\ Len(DocDescriptors) > 20 =>
              (Len(image.rects) = 20 /\ image.footer # Len(image.rects))

C21_Witness ==
    /\ pc = "drawn"
    /\ fallback = "ok"
    /\ Len(DocDescriptors) = 22
    /\ Len(image.rects) = 20
    /\ image.footer = 22

\* ------------------------------------------------------------ the labels

\* C22: every label the fallback renderer draws has at most 15 characters:
\* a name of 15 characters or fewer is drawn as it is, a longer name as its
\* first 12 characters followed by "...".
C22_LabelsWithinBudget ==
    (pc = "drawn" /\ ImageDrawn) =>
        \A k \in 1..Len(image.rects) :
            LET name == Chars(ShownName(DocDescriptors[k]))
                label == image.rects[k].label
            IN  /\ Len(label) <= 15
                /\ Len(name) <= 15 => label = name
                /\ Len(name) > 15 =>
                      /\ Len(label) = 15
                      /\ \A j \in 1..12 : label[j] = name[j]
                      /\ \A j \in 13..15 : label[j] = "."

C22_Witness ==
    /\ pc = "drawn"
    /\ fallback = "ok"
    /\ \E k \in 1..Len(image.rects) :
          /\ ShownName(DocDescriptors[k]) = "Schedule Trigger"
          /\ image.rects[k].label =
                <<"S","c","h","e","d","u","l","e"," ","T","r","i",".",".",".">>
    /\ \E k \in 1..Len(image.rects) :
          /\ ShownName(DocDescriptors[k]) = "Webhook Trigger"
          /\ Len(image.rects[k].label) = 15
          /\ image.rects[k].label[15] = "r"

\* ------------------------------------------------------------ the grid

\* The pixels of two rectangles of 120 by 40 with these top left corners
\* meet (PIL draws both corners of a rectangle).
Overlap(r, q) ==
    /\ r.x <= q.x + 120 /\ q.x <= r.x + 120
    /\ r.y <= q.y + 40 /\ q.y <= r.y + 40

\* C24: the i-th rectangle drawn (from 0) is in column i mod cols and row
\* i div cols, with cols = max(1, (width - 40) div 140); no two rectangles
\* overlap, whatever the positive width; on the default canvas of 800 by 600
\* every rectangle lies inside the canvas.
C24_GridPacking ==
    (pc = "drawn" /\ ImageDrawn) =>
        LET width == image.size[1]
            height == image.size[2]
            cols == IF (width - 40) \div 140 >= 1 THEN (width - 40) \div 140 ELSE 1
        IN  /\ image.size = <<input.args.width, input.args.height>>
            /\ image.cols = cols
            /\ \A k \in 1..Len(image.rects) :
                  /\ image.rects[k].x = 20 + ((k - 1) % cols) * 140
                  /\ image.rects[k].y = 60 + ((k - 1) \div cols) * 60
            /\ \A k, m \in 1..Len(image.rects) :
                  k # m => ~Overlap(image.rects[k], image.rects[m])
            /\ image.size = <<800, 600>> =>
                  \A k \in 1..Len(image.rects) :
                      /\ image.rects[k].x >= 0
                      /\ image.rects[k].x + 120 < width
                      /\ image.rects[k].y >= 0
                      /\ image.rects[k].y + 40 < height

C24_Witness ==
    /\ pc = "drawn"
    /\ fallback = "ok"
    /\ image.size = <<800, 600>>
    /\ image.cols = 5
    /\ Len(image.rects) = 20
    /\ image.rects[20].x = 580
    /\ image.rects[20].y = 240

\* The grid on a canvas narrower than a column: one column, standing out
\* of the canvas.
C24_NarrowCanvas ==
    /\ pc = "drawn"
    /\ image.size[1] = 30
    /\ image.cols = 1
    /\ Len(image.rects) = 20
    /\ image.rects[20].y = 1200

\* ------------------------------------------------------ calls in a row

\* What the two renderers give for the document and the arguments of the
\* call in a process where nothing was rendered before, when the
\* environment gives the outcomes it gave to this call.
AlonePrimary ==
    visualize_workflow_matplotlib(
        input.doc, NoArtifact, output_path, input.show,
        [backend |-> env.backend, save |-> env.save, display |-> env.display])

AloneFallback ==
    create_simple_diagram(input.doc, AlonePrimary.artifact, output_path,
                          DefaultWidth, DefaultHeight, env.img_save)

AloneResult ==
    IF input.file # "json" THEN "None"
    ELSE IF AlonePrimary.ret = "path" THEN "path"
    ELSE IF AloneFallback.ret THEN "path"
    ELSE "None"

\* C23: in any sequence of calls on one instance, the graph a call builds
\* and its success or failure depend on its own document and arguments
\* only, not on the calls before it, also when those failed part-way
\* through a render stage.
C23_CallsAreIndependent ==
    Returned =>
        /\ result = AloneResult
        /\ input.file = "json" =>
              /\ G = create_workflow_graph(input.doc)
              /\ primary = IF AlonePrimary.ret = "path" THEN "ok" ELSE "failed"
              /\ fallback # "none" =>
                    fallback = IF AloneFallback.ret THEN "ok" ELSE "failed"

C23_Witness ==
    /\ Returned
    /\ calls = 2
    /\ figures = 2
    /\ artifact.state = "partial"
    /\ writes = 0
    /\ G.status = "ok"
    /\ Len(G.nodes) = 1
    /\ primary = "failed"
    /\ result = "None"

\* ------------------------------------------------------ validated documents

\* C25 as stated: for every document validate_workflow accepts, the
\* construction raises nothing and returns a graph of as many nodes as the
\* document has descriptors, each at the transform of its position.
C25_Original ==
    (pc = "built" /\ valid = "True") =>
        /\ G.status = "ok"
        /\ Len(G.nodes) = Len(DocDescriptors)
        /\ \A i \in 1..Len(DocDescriptors) :
              /\ has_node(G, DocDescriptors[i].id)
              /\ G.attr[DocDescriptors[i].id].pos = Affine(DocDescriptors[i].position)

\* The values validate_workflow does not look at are what the construction
\* needs: the identifiers and the type tags are strings, the value of every
\* source of the connection map is an object.
CheckedValues ==
    /\ \A i \in 1..Len(DocDescriptors) :
          IsStr(DocDescriptors[i].id) /\ IsStr(DocDescriptors[i].type)
    /\ ConnMapWalkable

\* C25 holds of the accepted documents with such values.
C25_UnlessUncheckedValues == CheckedValues => C25_Original

C25_Accepted ==
    /\ pc = "built"
    /\ valid = "True"
    /\ CheckedValues
    /\ Len(G.nodes) = 2
    /\ G.attr["b"].pos = <<250, 100>>

====
